---------------------------- MODULE Spec2Model ----------------------------
(***************************************************************************)
(* TRAXOVO status aggregator (src/main.py) and the watson authorization    *)
(* gate (watson/..._security_layer_patch.py).                              *)
(*                                                                         *)
(* The aggregator object TRAXOVOCore is built once when the module is      *)
(* imported: it reads one JSON file, probes the GNIS relay with one GET,   *)
(* looks up four environment variables and keeps the four records in       *)
(* self.apis.  The Flask route handlers serve that snapshot and two POST   *)
(* routes forward the caller's JSON body to the relay.                     *)
(*                                                                         *)
(* JSON text is modelled as a sequence of tokens and json.load /           *)
(* response.json() / request.get_json() as a recursive-descent parser      *)
(* over it, so that "parses", "parses as a list" and "does not parse" are  *)
(* facts the parser decides.  A Python call is modelled by its outcome:    *)
(* a returned value or a raised exception.                                 *)
(***************************************************************************)
EXTENDS Integers, Sequences, FiniteSets, TLC

\* ------------------------------------------------------------------ bounds
\* longest arbitrary token string tried as file content
MaxLen == 4
\* most items of a generated JSON list / entries of a generated JSON object
MaxItems == 3
\* forward requests (POST) served in one run
MaxForward == 2
\* last tick of the wall clock (two ticks to a second)
MaxClock == 2
\* calls of the authorization gate in one run
MaxGateCalls == 3

\* ------------------------------------------------------- program constants
HTTP_OK == 200
HTTP_INTERNAL_ERROR == 500

GNIS_BASE_URL == "https://gnis-replicator.replit.app"
gauge_file == "GAUGE API PULL 1045AM_05.15.2025.json"
version == "Omega.2.0-MPA"
status == "OPERATIONAL"

\* --------------------------------------------------------- Python outcomes
\* a call that returned v
Ret(v) == [raised |-> FALSE, exc |-> "", value |-> v]
\* a call that raised exception x
Raise(x) == [raised |-> TRUE, exc |-> x, value |-> <<>>]

\* ------------------------------------------------------------------- JSON
\* A parsed JSON value: t is the Python type json gives it, s the scalar's
\* text, items the list's elements or the dict's (key, value) entries in
\* insertion order.
JNum(s) == [t |-> "int", s |-> s, items |-> <<>>]
JStr(s) == [t |-> "str", s |-> s, items |-> <<>>]
JList(xs) == [t |-> "list", s |-> "", items |-> xs]
JDict(kvs) == [t |-> "dict", s |-> "", items |-> kvs]
JNone == [t |-> "NoneType", s |-> "", items |-> <<>>]

NumTokens == {"1"}
StrTokens == {"k", "j"}
Tokens == {"[", "]", "{", "}", ",", ":", "null"} \cup NumTokens \cup StrTokens

\* dict[k] = v: an existing key keeps its position and takes the new value
DictPut(kvs, k, v) ==
  IF \E i \in 1..Len(kvs) : kvs[i].k = k
  THEN [i \in 1..Len(kvs) |-> IF kvs[i].k = k THEN [k |-> k, v |-> v] ELSE kvs[i]]
  ELSE Append(kvs, [k |-> k, v |-> v])

ParseFail == [ok |-> FALSE, val |-> JNone, next |-> 0]
ParseOk(v, n) == [ok |-> TRUE, val |-> v, next |-> n]

RECURSIVE ParseValue(_, _)
RECURSIVE ParseElems(_, _, _)
RECURSIVE ParseMembers(_, _, _)

\* the JSON value that starts at token i
ParseValue(toks, i) ==
  IF i > Len(toks) THEN ParseFail
  ELSE IF toks[i] \in NumTokens THEN ParseOk(JNum(toks[i]), i + 1)
  ELSE IF toks[i] \in StrTokens THEN ParseOk(JStr(toks[i]), i + 1)
  ELSE IF toks[i] = "null" THEN ParseOk(JNone, i + 1)
  ELSE IF toks[i] = "["
    THEN IF i + 1 <= Len(toks) /\ toks[i + 1] = "]"
         THEN ParseOk(JList(<<>>), i + 2)
         ELSE ParseElems(toks, i + 1, <<>>)
  ELSE IF toks[i] = "{"
    THEN IF i + 1 <= Len(toks) /\ toks[i + 1] = "}"
         THEN ParseOk(JDict(<<>>), i + 2)
         ELSE ParseMembers(toks, i + 1, <<>>)
  ELSE ParseFail

\* value ("," value)* "]" starting at token i, after the elements in acc
ParseElems(toks, i, acc) ==
  LET r == ParseValue(toks, i) IN
  IF ~r.ok \/ r.next > Len(toks) THEN ParseFail
  ELSE IF toks[r.next] = "," THEN ParseElems(toks, r.next + 1, Append(acc, r.val))
  ELSE IF toks[r.next] = "]" THEN ParseOk(JList(Append(acc, r.val)), r.next + 1)
  ELSE ParseFail

\* string ":" value ("," string ":" value)* "}" starting at token i
ParseMembers(toks, i, acc) ==
  IF i + 1 > Len(toks) \/ toks[i] \notin StrTokens \/ toks[i + 1] # ":" THEN ParseFail
  ELSE LET r == ParseValue(toks, i + 2) IN
       IF ~r.ok \/ r.next > Len(toks) THEN ParseFail
       ELSE IF toks[r.next] = ","
         THEN ParseMembers(toks, r.next + 1, DictPut(acc, toks[i], r.val))
       ELSE IF toks[r.next] = "}"
         THEN ParseOk(JDict(DictPut(acc, toks[i], r.val)), r.next + 1)
       ELSE ParseFail

\* json.loads: the whole text is one value, anything else raises
json_loads(toks) ==
  LET r == ParseValue(toks, 1) IN
  IF r.ok /\ r.next = Len(toks) + 1 THEN Ret(r.val) ELSE Raise("JSONDecodeError")

\* isinstance(data, list)
IsList(v) == v.t = "list"

\* len(data) of a list
len(v) == Len(v.items)


\* ------------------------------------------------------------ environment
\* The feed file as the process finds it: exists is os.path.exists, readable
\* is whether open() and read() succeed (a directory, a file without read
\* permission or one removed after the exists test do not), content its text.
NoFile == [exists |-> FALSE, readable |-> FALSE, content |-> <<>>]
UnreadableFile == [exists |-> TRUE, readable |-> FALSE, content |-> <<>>]
File(c) == [exists |-> TRUE, readable |-> TRUE, content |-> c]

\* the environment variables the aggregator looks up
OptionalKeys == {"OPENAI_API_KEY", "ANTHROPIC_API_KEY", "GOOGLE_API_KEY"}
EnvVars == {"WATSON_API_KEY"} \cup OptionalKeys

\* bool(os.getenv(name)): environ is the set of variables set to a non-empty value
getenv(environ, name) == name \in environ

\* What the relay does with one request: an HTTP response (code, body text) or
\* a transport failure.  A timeout is a read timeout: the relay has taken the
\* request and the answer is lost; refused and dns never reach the relay.
Http(code, body) == [kind |-> "http", code |-> code, body |-> body, err |-> ""]
Transport(err) == [kind |-> "transport", code |-> 0, body |-> <<>>, err |-> err]
TransportErrors == {"timeout", "refused"}
\* 200 and two of the other codes a relay may answer with
StatusCodes == {HTTP_OK, 204, 503}
ProbeOutcomes == {Http(c, <<>>) : c \in StatusCodes} \cup {Transport(x) : x \in TransportErrors}

\* ------------------------------------------------------ TRAXOVOCore methods
Disconnected == [status |-> "disconnected", records |-> 0, data |-> JDict(<<>>)]

\* with open(gauge_file, 'r') as f: f.read()
open_read(f) == IF f.readable THEN Ret(f.content) ELSE Raise("OSError")

\* json.load(f)
json_load(f) ==
  LET rd == open_read(f) IN IF rd.raised THEN rd ELSE json_loads(rd.value)

\* mutants of load_gauge_data
\* the isinstance test inverted: a list is counted as 0
load_gauge_data_inverted(f) ==
  IF f.exists
  THEN LET data == json_load(f) IN
       IF ~data.raised
       THEN Ret([status |-> "connected",
                 records |-> IF ~IsList(data.value) THEN len(data.value) ELSE 0,
                 data |-> data.value])
       ELSE Ret(Disconnected)
  ELSE Ret(Disconnected)

\* no try/except: the read's or the parser's exception leaves the method
load_gauge_data_nocatch(f) ==
  IF f.exists
  THEN LET data == json_load(f) IN
       IF ~data.raised
       THEN Ret([status |-> "connected",
                 records |-> IF IsList(data.value) THEN len(data.value) ELSE 0,
                 data |-> data.value])
       ELSE data
  ELSE Ret(Disconnected)

\* no isinstance test: len(data) of whatever was parsed
load_gauge_data_anylen(f) ==
  IF f.exists
  THEN LET data == json_load(f) IN
       IF ~data.raised
       THEN Ret([status |-> "connected", records |-> len(data.value), data |-> data.value])
       ELSE Ret(Disconnected)
  ELSE Ret(Disconnected)

load_gauge_data(f) ==
  IF f.exists
  THEN LET data == json_load(f) IN
       IF ~data.raised
       THEN Ret([status |-> "connected",
                 records |-> IF IsList(data.value) THEN len(data.value) ELSE 0,
                 data |-> data.value])
       ELSE Ret(Disconnected)
  ELSE Ret(Disconnected)

\* requests: the number of HTTP requests the call issued
WithRequests(r, n) ==
  [raised |-> r.raised, exc |-> r.exc, value |-> r.value, requests |-> n]

\* mutant of test_gnis_connection: response.ok (any code below 400) counts as connected
test_gnis_connection_ok(o) ==
  IF o.kind = "http"
  THEN IF o.code < 400
       THEN WithRequests(Ret([status |-> "connected", endpoint |-> GNIS_BASE_URL]), 1)
       ELSE WithRequests(Ret([status |-> "error", code |-> o.code]), 1)
  ELSE WithRequests(Ret([status |-> "offline", fallback |-> "local-mode"]), 1)

test_gnis_connection(o) ==
  IF o.kind = "http"
  THEN IF o.code = HTTP_OK
       THEN WithRequests(Ret([status |-> "connected", endpoint |-> GNIS_BASE_URL]), 1)
       ELSE WithRequests(Ret([status |-> "error", code |-> o.code]), 1)
  ELSE WithRequests(Ret([status |-> "offline", fallback |-> "local-mode"]), 1)

initialize_watson_api(environ) ==
  IF getenv(environ, "WATSON_API_KEY")
  THEN Ret([status |-> "configured", services |-> <<"nlp", "vision", "speech">>])
  ELSE Ret([status |-> "requires_config", services |-> <<>>])

discover_external_apis(environ) ==
  LET Found(name, label) ==
        IF getenv(environ, name) THEN <<[name |-> label, status |-> "configured"]>> ELSE <<>>
      apis_ == Found("OPENAI_API_KEY", "OpenAI") \o Found("ANTHROPIC_API_KEY", "Anthropic")
                 \o Found("GOOGLE_API_KEY", "Google")
  IN Ret([count |-> Len(apis_), apis |-> apis_])

Deps == {"gauge", "gnis", "watson", "external"}

\* mutant of TRAXOVOCore: without the feed the relay is not probed and is reported offline
TRAXOVOCore_failfast(e, o) ==
  LET g == load_gauge_data(e.file)
      n == IF g.value.status = "connected"
           THEN test_gnis_connection(o)
           ELSE WithRequests(Ret([status |-> "offline", fallback |-> "local-mode"]), 0)
      w == initialize_watson_api(e.environ)
      x == discover_external_apis(e.environ)
  IN WithRequests(Ret([gauge |-> g.value, gnis |-> n.value,
                       watson |-> w.value, external |-> x.value]), n.requests)

\* TRAXOVOCore(): the four calls in the order of the dict literal; an exception
\* of any of them leaves __init__ and no object is built
TRAXOVOCore(e, o) ==
  LET g == load_gauge_data(e.file)
      n == test_gnis_connection(o)
      w == initialize_watson_api(e.environ)
      x == discover_external_apis(e.environ)
  IN IF g.raised THEN WithRequests(g, 0)
     ELSE IF n.raised THEN n
     ELSE IF w.raised THEN WithRequests(w, n.requests)
     ELSE IF x.raised THEN WithRequests(x, n.requests)
     ELSE WithRequests(Ret([gauge |-> g.value, gnis |-> n.value,
                            watson |-> w.value, external |-> x.value]), n.requests)

\* ------------------------------------------------------------------ state
VARIABLES
  env,        \* the process's surroundings: [file, environ]
  pc,         \* "down", "serving", or "crashed" (the import raised)
  apis,       \* traxovo.apis, <<>> while there is no object
  boot,       \* history: the inputs of the latest construction [env, probe]
  prev,       \* history: the run before the latest one [boot, apis]
  relayGets,  \* GET requests the latest construction sent to the relay
  exch,       \* the latest HTTP exchange: request, response and what it used
  relayLog,   \* the envelopes the relay has received, oldest first
  posts,      \* POST requests sent to the relay
  forwards,   \* requests served by the two forwarding routes
  gate        \* the authorization gate's calls (second file)

vars == <<env, pc, apis, boot, prev, relayGets, exch, relayLog, posts, forwards, gate>>

NoApis == <<>>
NoBoot == [env |-> [file |-> NoFile, environ |-> {}], probe |-> Transport("refused")]
NoPrev == [ran |-> FALSE, boot |-> NoBoot, apis |-> NoApis]
NoRelay == [kind |-> "none", code |-> 0, body |-> <<>>, err |-> ""]
NoExchange ==
  [method |-> "", path |-> "", req |-> <<>>, relay |-> NoRelay, t |-> 0, code |-> 0, body |-> <<>>]
NoGate == [calls |-> 0, agent |-> "", decision |-> FALSE, outcome |-> "", args |-> <<>>, stdout |-> <<>>]

\* `traxovo = TRAXOVOCore()` at import, with the relay answering the probe with o
Startup(o) ==
  /\ pc = "down"
  /\ LET c == TRAXOVOCore(env, o) IN
       /\ pc' = IF c.raised THEN "crashed" ELSE "serving"
       /\ apis' = IF c.raised THEN NoApis ELSE c.value
       /\ relayGets' = c.requests
  /\ boot' = [env |-> env, probe |-> o]
  /\ exch' = NoExchange
  /\ UNCHANGED <<env, prev, relayLog, posts, forwards, gate>>

\* ------------------------------------------------------- feed file inputs
RECURSIVE Join(_)
\* the texts of xs separated by commas
Join(xs) ==
  IF Len(xs) = 0 THEN <<>>
  ELSE IF Len(xs) = 1 THEN xs[1]
  ELSE xs[1] \o <<",">> \o Join(Tail(xs))

SeqsUpTo(S, n) == UNION {[1..k -> S] : k \in 0..n}

ItemTexts == {<<"1">>, <<"k">>, <<"[", "]">>, <<"{", "k", ":", "1", "}">>}
\* the text of a JSON list of the given item texts
ListText(xs) == <<"[">> \o Join(xs) \o <<"]">>
\* the text of a JSON object with the given keys, each with value 1
DictText(ks) == <<"{">> \o Join([i \in 1..Len(ks) |-> <<ks[i], ":", "1">>]) \o <<"}">>

FeedTexts ==
  SeqsUpTo(Tokens, MaxLen)
    \cup {ListText(xs) : xs \in SeqsUpTo(ItemTexts, MaxItems)}
    \cup {DictText(ks) : ks \in SeqsUpTo(StrTokens, MaxItems)}

FeedFiles == {NoFile, UnreadableFile} \cup {File(c) : c \in FeedTexts}



\* ------------------------------------------------------ process lifecycle
\* the feed files the server specifications start with and change between:
\* absent, not JSON, a list of two items, an object with one entry
ServeFiles ==
  {NoFile, File(<<"[">>), File(<<"[", "1", ",", "k", "]">>), File(<<"{", "k", ":", "1", "}">>)}
ServeEnvs == {[file |-> f, environ |-> vs] : f \in ServeFiles, vs \in SUBSET EnvVars}

\* the feed file is written, replaced or removed
SetFile(f) ==
  /\ f # env.file
  /\ env' = [env EXCEPT !.file = f]
  /\ UNCHANGED <<pc, apis, boot, prev, relayGets, exch, relayLog, posts, forwards, gate>>

\* a credential is set in, or removed from, the environment processes start in
SetEnvVar(name) ==
  /\ env' = [env EXCEPT !.environ =
               IF name \in env.environ THEN env.environ \ {name} ELSE env.environ \cup {name}]
  /\ UNCHANGED <<pc, apis, boot, prev, relayGets, exch, relayLog, posts, forwards, gate>>

\* the process ends (app.run returns or the process is killed); the object dies with it
Exit ==
  /\ pc = "serving"
  /\ pc' = "down"
  /\ prev' = [ran |-> TRUE, boot |-> boot, apis |-> apis]
  /\ apis' = NoApis
  /\ exch' = NoExchange
  /\ UNCHANGED <<env, boot, relayGets, relayLog, posts, forwards, gate>>

\* ------------------------------------------------------------------ clock
Times == 0..MaxClock
\* ticks in one second: strftime('%Y%m%d_%H%M%S') drops what isoformat() keeps
TicksPerSecond == 2
strftime(t) == t \div TicksPerSecond
isoformat(t) == <<t \div TicksPerSecond, t % TicksPerSecond>>

\* --------------------------------------------------------------- routing
\* the @app.route table: path -> methods
Routes ==
  [p \in {"/", "/apis", "/gpt-actions", "/data-processing", "/integrations",
          "/api/system/status", "/api/gauge/data"} |-> {"GET"}]
   @@ [p \in {"/api/gpt/create-action", "/api/gnis/sync"} |-> {"POST"}]
\* paths a client may ask for: the routes and the two the documentation names
Paths == DOMAIN Routes \cup {"/api/status", "/api/gauge-data"}
Methods == {"GET", "POST"}

Exchange(method, path, req, relay, t, code, body) ==
  [method |-> method, path |-> path, req |-> req, relay |-> relay, t |-> t,
   code |-> code, body |-> body]

\* what Flask answers for an exception that leaves a view
ServerError(x) == [code |-> HTTP_INTERNAL_ERROR, body |-> [status |-> "error", message |-> x]]

\* render_template(name, **context); found: whether templates/<name> exists
render_template(name, context, found) ==
  IF found THEN Ret([template |-> name, context |-> context]) ELSE Raise("TemplateNotFound")

\* a GET view that renders a page
Page(path, r) ==
  /\ pc = "serving"
  /\ exch' = IF r.raised
             THEN Exchange("GET", path, <<>>, NoRelay, 0, ServerError(r.exc).code, ServerError(r.exc).body)
             ELSE Exchange("GET", path, <<>>, NoRelay, 0, HTTP_OK, r.value)
  /\ UNCHANGED <<env, pc, apis, boot, prev, relayGets, relayLog, posts, forwards, gate>>

dashboard(found) ==
  /\ pc = "serving"
  /\ Page("/", render_template("dashboard.html",
                               [system_status |-> apis, version |-> version], found))

api_management(found) ==
  /\ pc = "serving"
  /\ Page("/apis", render_template("api_management.html",
                                   [apis |-> apis, external_count |-> apis.external.count], found))

gpt_actions(found) ==
  /\ pc = "serving"
  /\ Page("/gpt-actions", render_template("gpt_actions.html", <<>>, found))

data_processing(found) ==
  /\ pc = "serving"
  /\ Page("/data-processing",
          render_template("data_processing.html",
                          [gauge_data |-> apis.gauge.data, record_count |-> apis.gauge.records],
                          found))

integrations(found) ==
  /\ pc = "serving"
  /\ Page("/integrations", render_template("integrations.html",
                                           [integrations |-> apis.external.apis], found))

\* jsonify(v): the object the JSON body is written from
jsonify(v) == v

\* mutant of api_system_status: a health check that answers 503 while the relay is not connected
api_system_status_health(t) ==
  /\ pc = "serving"
  /\ exch' = Exchange("GET", "/api/system/status", <<>>, NoRelay, t,
                      IF apis.gnis.status = "connected" THEN HTTP_OK ELSE 503,
                      jsonify([platform |-> "TRAXOVO Watson Intelligence",
                               version |-> version,
                               status |-> status,
                               timestamp |-> isoformat(t),
                               apis |-> apis]))
  /\ UNCHANGED <<env, pc, apis, boot, prev, relayGets, relayLog, posts, forwards, gate>>

api_system_status(t) ==
  /\ pc = "serving"
  /\ exch' = Exchange("GET", "/api/system/status", <<>>, NoRelay, t, HTTP_OK,
                      jsonify([platform |-> "TRAXOVO Watson Intelligence",
                               version |-> version,
                               status |-> status,
                               timestamp |-> isoformat(t),
                               apis |-> apis]))
  /\ UNCHANGED <<env, pc, apis, boot, prev, relayGets, relayLog, posts, forwards, gate>>

\* mutant of api_gauge_data: the view reads the feed file again and keeps what it read
api_gauge_data_reload ==
  /\ pc = "serving"
  /\ apis' = [apis EXCEPT !.gauge = load_gauge_data(env.file).value]
  /\ exch' = Exchange("GET", "/api/gauge/data", <<>>, NoRelay, 0, HTTP_OK, jsonify(apis'.gauge))
  /\ UNCHANGED <<env, pc, boot, prev, relayGets, relayLog, posts, forwards, gate>>

api_gauge_data ==
  /\ pc = "serving"
  /\ exch' = Exchange("GET", "/api/gauge/data", <<>>, NoRelay, 0, HTTP_OK, jsonify(apis.gauge))
  /\ UNCHANGED <<env, pc, apis, boot, prev, relayGets, relayLog, posts, forwards, gate>>

\* a request for a path no route matches
not_found(method, path) ==
  /\ pc = "serving"
  /\ path \notin DOMAIN Routes
  /\ exch' = Exchange(method, path, <<>>, NoRelay, 0, 404, [status |-> "Not Found"])
  /\ UNCHANGED <<env, pc, apis, boot, prev, relayGets, relayLog, posts, forwards, gate>>

\* a request for a route with a method it does not take
method_not_allowed(method, path) ==
  /\ pc = "serving"
  /\ path \in DOMAIN Routes
  /\ method \notin Routes[path]
  /\ exch' = Exchange(method, path, <<>>, NoRelay, 0, 405, [status |-> "Method Not Allowed"])
  /\ UNCHANGED <<env, pc, apis, boot, prev, relayGets, relayLog, posts, forwards, gate>>


\* ------------------------------------------------------------- forwarding
\* request.get_json(): the parsed body, or BadRequest
get_json(body) ==
  LET r == json_loads(body) IN IF r.raised THEN Raise("BadRequest") ELSE r

\* requests.post(...): the relay's response, or the transport's exception
requests_post(o) == IF o.kind = "http" THEN Ret(o) ELSE Raise(o.err)

\* response.json()
response_json(response) == json_loads(response.body)

\* posts: the POST requests the call issued; wire: the envelope it put on the wire
WithPost(r, n, payload) ==
  [raised |-> r.raised, exc |-> r.exc, value |-> r.value, posts |-> n, wire |-> payload]

\* mutants of create_gpt_action
\* response.json() outside the try: its exception leaves the method
create_gpt_action_nocatch(action_data, t, o) ==
  LET payload == [event_type |-> "assistant_create_action",
                  goal_id |-> <<"gpt_action", strftime(t)>>,
                  metadata |-> [platform |-> "TRAXOVO",
                                version |-> version,
                                action_data |-> action_data,
                                timestamp |-> isoformat(t)]]
      response == requests_post(o)
      parsed == response_json(response.value)
  IN IF response.raised
     THEN WithPost(Ret([status |-> "failed", error |-> response.exc]), 1, payload)
     ELSE IF response.value.code = HTTP_OK
     THEN IF parsed.raised
          THEN WithPost(parsed, 1, payload)
          ELSE WithPost(Ret([status |-> "success", goal_id |-> payload.goal_id,
                             response |-> parsed.value]), 1, payload)
     ELSE WithPost(Ret([status |-> "error", code |-> response.value.code,
                        message |-> response.value.body]), 1, payload)

\* a transport failure is retried once
create_gpt_action_retry(action_data, t, o) ==
  LET payload == [event_type |-> "assistant_create_action",
                  goal_id |-> <<"gpt_action", strftime(t)>>,
                  metadata |-> [platform |-> "TRAXOVO",
                                version |-> version,
                                action_data |-> action_data,
                                timestamp |-> isoformat(t)]]
      response == requests_post(o)
      parsed == response_json(response.value)
  IN IF response.raised
     THEN WithPost(Ret([status |-> "failed", error |-> response.exc]), 2, payload)
     ELSE IF response.value.code = HTTP_OK
     THEN IF parsed.raised
          THEN WithPost(Ret([status |-> "failed", error |-> parsed.exc]), 1, payload)
          ELSE WithPost(Ret([status |-> "success", goal_id |-> payload.goal_id,
                             response |-> parsed.value]), 1, payload)
     ELSE WithPost(Ret([status |-> "error", code |-> response.value.code,
                        message |-> response.value.body]), 1, payload)

create_gpt_action(action_data, t, o) ==
  LET payload == [event_type |-> "assistant_create_action",
                  goal_id |-> <<"gpt_action", strftime(t)>>,
                  metadata |-> [platform |-> "TRAXOVO",
                                version |-> version,
                                action_data |-> action_data,
                                timestamp |-> isoformat(t)]]
      response == requests_post(o)
      parsed == response_json(response.value)
  IN IF response.raised
     THEN WithPost(Ret([status |-> "failed", error |-> response.exc]), 1, payload)
     ELSE IF response.value.code = HTTP_OK
     THEN IF parsed.raised
          THEN WithPost(Ret([status |-> "failed", error |-> parsed.exc]), 1, payload)
          ELSE WithPost(Ret([status |-> "success", goal_id |-> payload.goal_id,
                             response |-> parsed.value]), 1, payload)
     ELSE WithPost(Ret([status |-> "error", code |-> response.value.code,
                        message |-> response.value.body]), 1, payload)

\* whether the relay took the request: it answered, or the answer timed out
Delivered(o) == o.kind = "http" \/ o.err = "timeout"

\* the body of both forwarding views: try get_json and create_gpt_action,
\* jsonify the result; any exception becomes the 500 error record
Forward(path, body, o, t) ==
  /\ pc = "serving"
  /\ forwards < MaxForward
  /\ forwards' = forwards + 1
  /\ LET action_data == get_json(body)
         result == create_gpt_action(action_data.value, t, o)
     IN IF action_data.raised
        THEN /\ exch' = Exchange("POST", path, body, NoRelay, t,
                                 ServerError(action_data.exc).code, ServerError(action_data.exc).body)
             /\ UNCHANGED <<posts, relayLog>>
        ELSE /\ exch' = IF result.raised
                        THEN Exchange("POST", path, body, o, t,
                                      ServerError(result.exc).code, ServerError(result.exc).body)
                        ELSE Exchange("POST", path, body, o, t, HTTP_OK, jsonify(result.value))
             /\ posts' = posts + result.posts
             /\ relayLog' = IF result.posts > 0 /\ Delivered(o)
                            THEN relayLog \o [i \in 1..result.posts |-> result.wire]
                            ELSE relayLog
  /\ UNCHANGED <<env, pc, apis, boot, prev, relayGets, gate>>

api_create_gpt_action(body, o, t) == Forward("/api/gpt/create-action", body, o, t)

api_gnis_sync(body, o, t) == Forward("/api/gnis/sync", body, o, t)

\* request bodies: two JSON objects and a truncated one
RequestBodies == {<<"{", "}">>, <<"{", "k", ":", "1", "}">>, <<"{">>}
\* relay response bodies: a JSON object and an empty body
RelayBodies == {<<"{", "j", ":", "1", "}">>, <<>>}
PostOutcomes ==
  {Http(c, b) : c \in StatusCodes, b \in RelayBodies} \cup {Transport(x) : x \in TransportErrors}

\* --------------------------------------------------- authorization gate
Agents == {"agent-1", "agent-2", "agent-3"}

\* auth.gatekeeper_bypass.bypass_for_agent: the decisions it may return
bypass_for_agent(agent_id) == BOOLEAN

\* mutant of watson_auth_gate: the test without its `not`
watson_auth_gate_inverted(agent_id, allowed) ==
  IF allowed
  THEN [raised |-> TRUE, exc |-> "PermissionError",
        args |-> <<<<"Access denied for agent", agent_id>>>>, printed |-> <<>>]
  ELSE [raised |-> FALSE, exc |-> "", args |-> <<>>,
        printed |-> <<<<"granted full execution clearance", agent_id>>>>]

\* watson_auth_gate(agent_id), allowed being what bypass_for_agent returned:
\* the exception's only argument is the message naming the agent; the
\* clearance is a line on stdout
watson_auth_gate(agent_id, allowed) ==
  IF ~allowed
  THEN [raised |-> TRUE, exc |-> "PermissionError",
        args |-> <<<<"Access denied for agent", agent_id>>>>, printed |-> <<>>]
  ELSE [raised |-> FALSE, exc |-> "", args |-> <<>>,
        printed |-> <<<<"granted full execution clearance", agent_id>>>>]

\* some caller runs the gate for an agent
GateCall(agent_id) ==
  /\ gate.calls < MaxGateCalls
  /\ \E allowed \in bypass_for_agent(agent_id) :
       LET r == watson_auth_gate(agent_id, allowed) IN
       gate' = [calls |-> gate.calls + 1,
                agent |-> agent_id,
                decision |-> allowed,
                outcome |-> IF r.raised THEN r.exc ELSE "returned",
                args |-> r.args,
                stdout |-> gate.stdout \o r.printed]
  /\ UNCHANGED <<env, pc, apis, boot, prev, relayGets, exch, relayLog, posts, forwards>>

\* --------------------------------------------------------- specifications
\* no process yet, in environment e
Down(e) ==
  /\ env = e
  /\ pc = "down"
  /\ apis = NoApis
  /\ boot = NoBoot
  /\ prev = NoPrev
  /\ relayGets = 0
  /\ exch = NoExchange
  /\ relayLog = <<>>
  /\ posts = 0
  /\ forwards = 0
  /\ gate = NoGate

\* the process right after `traxovo = TRAXOVOCore()` in environment e, the
\* relay having answered the probe with o
Constructed(e, o) ==
  LET c == TRAXOVOCore(e, o) IN
  /\ env = e
  /\ pc = IF c.raised THEN "crashed" ELSE "serving"
  /\ apis = IF c.raised THEN NoApis ELSE c.value
  /\ boot = [env |-> e, probe |-> o]
  /\ prev = NoPrev
  /\ relayGets = c.requests
  /\ exch = NoExchange
  /\ relayLog = <<>>
  /\ posts = 0
  /\ forwards = 0
  /\ gate = NoGate

\* the GET side of the server
Reads(times) ==
  \/ \E found \in BOOLEAN : dashboard(found)
  \/ \E found \in BOOLEAN : api_management(found)
  \/ \E found \in BOOLEAN : gpt_actions(found)
  \/ \E found \in BOOLEAN : data_processing(found)
  \/ \E found \in BOOLEAN : integrations(found)
  \/ \E t \in times : api_system_status(t)
  \/ api_gauge_data
  \/ \E m \in Methods, p \in Paths : not_found(m, p)
  \/ \E m \in Methods, p \in Paths : method_not_allowed(m, p)

\* The running server: every route, while the feed file and the credentials
\* change under it.  Startups: everything failing and everything healthy.
StartEnvs == {[file |-> NoFile, environ |-> {}],
              [file |-> File(<<"[", "1", ",", "k", "]">>), environ |-> EnvVars]}
StartProbes == {Http(HTTP_OK, <<>>), Transport("refused")}

Init == \E e \in StartEnvs, o \in StartProbes : Constructed(e, o)

Next ==
  \/ \E f \in ServeFiles : SetFile(f)
  \/ \E name \in EnvVars : SetEnvVar(name)
  \/ Reads({0})
  \/ \E body \in {<<"{", "}">>, <<"{">>}, o \in {Http(HTTP_OK, <<"{", "}">>), Transport("timeout")} :
       api_create_gpt_action(body, o, 0)
  \/ \E body \in {<<"{", "}">>, <<"{">>}, o \in {Http(HTTP_OK, <<"{", "}">>), Transport("timeout")} :
       api_gnis_sync(body, o, 0)

Spec == Init /\ [][Next]_vars

\* Startup in every environment and with every probe outcome, then reads.
InitBoot == \E e \in ServeEnvs : Down(e)

NextBoot ==
  \/ \E o \in ProbeOutcomes : Startup(o)
  \/ Reads(Times)

SpecBoot == InitBoot /\ [][NextBoot]_vars

\* The feed operation on every feed file: one construction each.
InitFeed == \E f \in FeedFiles : Down([file |-> f, environ |-> {}])

NextFeed == \E o \in {Transport("refused")} : Startup(o)

SpecFeed == InitFeed /\ [][NextFeed]_vars

\* One run after another, the environment changing between the runs.
NextRestart ==
  \/ \E o \in ProbeOutcomes : Startup(o)
  \/ Exit
  \/ pc = "down" /\ \E f \in ServeFiles : SetFile(f)
  \/ pc = "down" /\ \E name \in EnvVars : SetEnvVar(name)

SpecRestart == InitBoot /\ [][NextRestart]_vars

\* The forwarding routes with every request body, relay outcome and time.
InitForward == \E o \in StartProbes : Constructed([file |-> NoFile, environ |-> {}], o)

NextForward ==
  \/ \E body \in RequestBodies, o \in PostOutcomes, t \in Times : api_create_gpt_action(body, o, t)
  \/ \E body \in RequestBodies, o \in PostOutcomes, t \in Times : api_gnis_sync(body, o, t)

SpecForward == InitForward /\ [][NextForward]_vars

\* The authorization gate on its own: nothing in main.py calls it.
InitGate == Down([file |-> NoFile, environ |-> {}])

NextGate == \E a \in Agents : GateCall(a)

SpecGate == InitGate /\ [][NextGate]_vars


\* ------------------------------------------------------------ properties
\* what the latest construction read of the feed file, and what it parses to
BootFile == boot.env.file
BootParsed == json_loads(BootFile.content)
BootReadable == BootFile.exists /\ BootFile.readable

\* the generated feed files: a list of n items, an object written with n keys
GeneratedLists == {[file |-> File(ListText(xs)), n |-> Len(xs)] : xs \in SeqsUpTo(ItemTexts, MaxItems)}
GeneratedDicts == {[file |-> File(DictText(ks)), n |-> Len(ks)] : ks \in SeqsUpTo(StrTokens, MaxItems)}

\* C3: a feed file that is present and parses as a list of N items gives the
\* record {status: connected, records: N, data: the parsed list}, for every N
\* (the generated lists of 0..MaxItems items among them).
C3_ListFeedConnected ==
  pc = "serving" =>
    /\ (BootReadable /\ ~BootParsed.raised /\ BootParsed.value.t = "list") =>
         apis.gauge = [status |-> "connected",
                       records |-> Len(BootParsed.value.items),
                       data |-> BootParsed.value]
    /\ \A g \in GeneratedLists :
         BootFile = g.file => apis.gauge.status = "connected" /\ apis.gauge.records = g.n

C3_Witness ==
  /\ pc = "serving"
  /\ \E g \in GeneratedLists : g.n = MaxItems /\ BootFile = g.file
  /\ apis.gauge.status = "connected"
  /\ apis.gauge.records = MaxItems

\* C4: a feed file that is absent, cannot be read or does not parse gives the
\* record {status: disconnected, records: 0, data: {}}; the construction never
\* raises, so the process is never left without its object.
C4_BadFeedDisconnected ==
  /\ pc # "crashed"
  /\ pc = "serving" =>
       ((~BootFile.exists \/ ~BootFile.readable \/ BootParsed.raised) =>
          apis.gauge = [status |-> "disconnected", records |-> 0, data |-> JDict(<<>>)])

C4_Witness ==
  /\ pc = "serving"
  /\ BootReadable
  /\ Len(BootFile.content) = MaxLen
  /\ BootParsed.raised
  /\ apis.gauge.status = "disconnected"
  /\ DOMAIN apis = Deps

\* C10: a feed file that parses as JSON but not as a list (an object with any
\* number of entries, a number, a string, null) gives status connected with
\* records 0 and the parsed content as data; records is non-zero only for a list.
C10_NonListCountsZero ==
  pc = "serving" =>
    /\ (BootReadable /\ ~BootParsed.raised /\ BootParsed.value.t # "list") =>
         apis.gauge = [status |-> "connected", records |-> 0, data |-> BootParsed.value]
    /\ apis.gauge.records # 0 =>
         (BootReadable /\ ~BootParsed.raised /\ BootParsed.value.t = "list")
    /\ \A g \in GeneratedDicts :
         BootFile = g.file => apis.gauge.status = "connected" /\ apis.gauge.records = 0

C10_Witness ==
  /\ pc = "serving"
  /\ BootFile = File(DictText(<<"k", "j">>))
  /\ apis.gauge.status = "connected"
  /\ apis.gauge.data.t = "dict"
  /\ Len(apis.gauge.data.items) = 2
  /\ apis.gauge.records = 0

\* C5: the probe sends one GET and maps its outcome: HTTP 200 to connected, any
\* other code c to {status: error, code: c}, a transport failure to
\* {status: offline, fallback: local-mode}; it never raises.
C5_ProbeMapping ==
  /\ pc # "crashed"
  /\ pc = "serving" =>
       /\ relayGets = 1
       /\ (boot.probe.kind = "http" /\ boot.probe.code = 200) =>
            apis.gnis.status = "connected"
       /\ (boot.probe.kind = "http" /\ boot.probe.code # 200) =>
            apis.gnis = [status |-> "error", code |-> boot.probe.code]
       /\ boot.probe.kind = "transport" =>
            apis.gnis = [status |-> "offline", fallback |-> "local-mode"]

C5_Witness ==
  /\ pc = "serving"
  /\ boot.probe.kind = "http"
  /\ boot.probe.code = 204
  /\ apis.gnis.status = "error"
  /\ relayGets = 1

\* C1 as stated: GET /api/status answers 200 with the four dependency keys.
C1_Original ==
  (exch.method = "GET" /\ exch.path = "/api/status") =>
    (exch.code = 200 /\ DOMAIN exch.body.apis = Deps)

\* C1 amended: the status route is /api/system/status; GET on it answers 200
\* with the keys gauge, gnis, watson and external whatever each dependency's
\* outcome was, and /api/status is no route (404).
C1_StatusAlwaysOk ==
  /\ pc # "crashed"
  /\ (exch.method = "GET" /\ exch.path = "/api/system/status") =>
       (exch.code = 200 /\ DOMAIN exch.body.apis = Deps)
  /\ (exch.method = "GET" /\ exch.path = "/api/status") => exch.code = 404

C1_Witness ==
  /\ exch.method = "GET"
  /\ exch.path = "/api/system/status"
  /\ exch.code = 200
  /\ exch.body.apis.gauge.status = "disconnected"
  /\ exch.body.apis.gnis.status = "offline"
  /\ exch.body.apis.watson.status = "requires_config"
  /\ exch.body.apis.external.count = 0

\* whether two constructions had the same input for dependency d
SameInput(d, b1, b2) ==
  IF d = "gauge" THEN b1.env.file = b2.env.file
  ELSE IF d = "gnis" THEN b1.probe = b2.probe
  ELSE IF d = "watson"
    THEN ("WATSON_API_KEY" \in b1.env.environ) = ("WATSON_API_KEY" \in b2.env.environ)
  ELSE b1.env.environ \cap OptionalKeys = b2.env.environ \cap OptionalKeys

\* C8: two startups that differ only in one dependency's outcome report the
\* other three dependencies identically, and every startup reports all four.
C8_Independent ==
  /\ pc # "crashed"
  /\ pc = "serving" => DOMAIN apis = Deps
  /\ (pc = "serving" /\ prev.ran) =>
       \A d \in Deps :
         (\A d2 \in Deps \ {d} : SameInput(d2, boot, prev.boot)) =>
           (\A d2 \in Deps \ {d} : apis[d2] = prev.apis[d2])

C8_Witness ==
  /\ pc = "serving"
  /\ prev.ran
  /\ \A d2 \in Deps \ {"gauge"} : SameInput(d2, boot, prev.boot)
  /\ prev.apis.gauge.status = "disconnected"
  /\ apis.gauge.status = "connected"
  /\ apis.gnis.status = "offline"
  /\ apis.watson.status = "requires_config"
  /\ apis.external.count = 2

\* C2: while the process runs, traxovo.apis is what the construction built from
\* the environment it started in, whatever was requested since and however the
\* feed file and the credentials changed since; the read routes serve that.
C2_SnapshotFrozen ==
  pc = "serving" =>
    LET built == TRAXOVOCore(boot.env, boot.probe).value IN
    /\ apis = built
    /\ (exch.path = "/api/system/status" /\ exch.code = 200) => exch.body.apis = built
    /\ (exch.path = "/api/gauge/data" /\ exch.code = 200) => exch.body = built.gauge
    /\ (exch.path = "/" /\ exch.code = 200) => exch.body.context.system_status = built

C2_Witness ==
  /\ pc = "serving"
  /\ boot.env.file = NoFile
  /\ env.file = File(<<"[", "1", ",", "k", "]">>)
  /\ env.environ # boot.env.environ
  /\ posts > 0
  /\ exch.path = "/api/gauge/data"
  /\ exch.code = 200
  /\ exch.body.status = "disconnected"

\* the latest exchange is a forward whose body parsed, so create_gpt_action ran
Forwarded ==
  /\ exch.method = "POST"
  /\ exch.path \in {"/api/gpt/create-action", "/api/gnis/sync"}
  /\ ~json_loads(exch.req).raised

\* C6 as stated: the remote body on HTTP 200, an error record with code and
\* text otherwise, a failed record on a transport exception; never raises.
C6_Original ==
  Forwarded =>
    /\ exch.code = 200
    /\ (exch.relay.kind = "http" /\ exch.relay.code = 200) => exch.body.status = "success"
    /\ (exch.relay.kind = "http" /\ exch.relay.code # 200) =>
         exch.body = [status |-> "error", code |-> exch.relay.code, message |-> exch.relay.body]
    /\ exch.relay.kind = "transport" =>
         exch.body = [status |-> "failed", error |-> exch.relay.err]

\* C6 amended: on HTTP 200 with a body that parses as JSON the result is
\* {status: success, goal_id, response: the parsed body}; on HTTP 200 with a
\* body that is not JSON it is {status: failed, error}; on any other code
\* {status: error, code, message: the text}; on a transport exception
\* {status: failed, error}; the operation never raises.
C6_ForwardTotal ==
  Forwarded =>
    /\ exch.code = 200
    /\ (exch.relay.kind = "http" /\ exch.relay.code = 200 /\ ~json_loads(exch.relay.body).raised) =>
         exch.body = [status |-> "success",
                      goal_id |-> <<"gpt_action", exch.t \div 2>>,
                      response |-> json_loads(exch.relay.body).value]
    /\ (exch.relay.kind = "http" /\ exch.relay.code = 200 /\ json_loads(exch.relay.body).raised) =>
         (exch.body.status = "failed" /\ DOMAIN exch.body = {"status", "error"})
    /\ (exch.relay.kind = "http" /\ exch.relay.code # 200) =>
         exch.body = [status |-> "error", code |-> exch.relay.code, message |-> exch.relay.body]
    /\ exch.relay.kind = "transport" =>
         exch.body = [status |-> "failed", error |-> exch.relay.err]

C6_Witness ==
  /\ Forwarded
  /\ exch.code = 200
  /\ exch.relay.kind = "http"
  /\ exch.relay.code = 200
  /\ json_loads(exch.relay.body).raised
  /\ exch.body.status = "failed"

\* C7: every forward request sends at most one POST, so the POSTs never
\* outnumber the forward requests; and every request the relay takes adds one
\* record carrying the caller's payload and the id of the current second,
\* whether or not the same payload was sent before.
C7_SingleAttempt ==
  [][/\ posts' - posts <= forwards' - forwards
     /\ Len(relayLog') - Len(relayLog) <= posts' - posts
     /\ (forwards' # forwards /\ Forwarded' /\ Delivered(exch'.relay)) =>
          /\ Len(relayLog') = Len(relayLog) + 1
          /\ relayLog'[Len(relayLog')].metadata.action_data = json_loads(exch'.req).value
          /\ relayLog'[Len(relayLog')].goal_id = <<"gpt_action", exch'.t \div 2>>]_vars

C7_Witness ==
  /\ forwards = 2
  /\ posts = 2
  /\ Len(relayLog) = 2
  /\ relayLog[1].metadata.action_data = relayLog[2].metadata.action_data
  /\ relayLog[1].goal_id = relayLog[2].goal_id
  /\ relayLog[1].metadata.timestamp # relayLog[2].metadata.timestamp

\* C9: the gate raises PermissionError, with the message naming the agent as
\* its only argument, exactly when bypass_for_agent returned false; when it
\* returned true the gate returns.
C9_GateRaisesIffDenied ==
  gate.calls > 0 =>
    /\ (gate.outcome = "PermissionError") <=> ~gate.decision
    /\ gate.decision => gate.outcome = "returned"
    /\ ~gate.decision => gate.args = <<<<"Access denied for agent", gate.agent>>>>

C9_Witness ==
  /\ gate.calls = 2
  /\ ~gate.decision
  /\ gate.outcome = "PermissionError"
  /\ Len(gate.stdout) = 1

=============================================================================
